---- MODULE Spec2Model ----
(***************************************************************************)
(* Model of src/python/enfugue/diffusion/support/model.py:                 *)
(*   SupportModelImageProcessor  (__init__, __enter__, __exit__, __call__) *)
(*   SupportModel                (__init__, get_default_instance, context) *)
(*                                                                         *)
(* Strings are sequences of one-character strings, so that startswith,     *)
(* find, rstrip and concatenation are computed and not assumed.            *)
(***************************************************************************)
EXTENDS Integers, Sequences, FiniteSets, TLC

(* ------------------------------ bounds -------------------------------- *)
\* longest model_dir handed to the constructor
MaxLen == 2
\* most contexts of the one instance that are entered and not yet left
MaxDepth == 2

(* --------------------------- input domains ---------------------------- *)
Chars == {"~", "/", "u"}

RECURSIVE StringsUpTo(_)
StringsUpTo(n) ==
    IF n = 0 THEN {<<>>}
    ELSE LET shorter == StringsUpTo(n - 1)
         IN  shorter \cup {Append(s, c) : s \in {t \in shorter : Len(t) = n - 1}, c \in Chars}

ModelDirs   == StringsUpTo(MaxLen)
DeviceTypes == {"cuda", "mps", "cpu", "meta"}
Dtypes      == {"float16", "float32"}
Homes       == {<<"/", "h">>, <<"/">>}
Processors  == {"p1", "p2"}
KwargSets   == {{}, {<<"scale", "2">>}}
Images      == {"img1", "img2"}
BodyErrors  == {"none", "BodyError"}

VARIABLES
    home,       \* os.environ["HOME"]
    model_dir,  \* SupportModel.model_dir
    device,     \* SupportModel.device.type
    dtype,      \* SupportModel.dtype
    loaded,     \* SupportModel.loaded: "unset" until the first context
    process,    \* the instance attribute process: "unset", "None" or a processor
    active,     \* generators of context() suspended at the yield
    kwargs,     \* SupportModelImageProcessor.kwargs
    entered,    \* the caller is inside a `with processor:` block
    trace,      \* effects of the most recent call, in program order
    last        \* the most recent call: its name, arguments, result, error

vars == <<home, model_dir, device, dtype, loaded, process, active,
          kwargs, entered, trace, last>>

(* ------------------------------ strings ------------------------------- *)
startswith(s, c) == Len(s) >= 1 /\ s[1] = c

\* str.find(c, start) with a 1-based start; 0 stands for Python's -1
find(s, c, start) ==
    LET hits == {i \in start..Len(s) : s[i] = c}
    IN  IF hits = {} THEN 0 ELSE CHOOSE i \in hits : \A j \in hits : i <= j

RECURSIVE rstrip(_, _)
rstrip(s, c) ==
    IF Len(s) >= 1 /\ s[Len(s)] = c THEN rstrip(SubSeq(s, 1, Len(s) - 1), c) ELSE s

\* the password database: the users pwd.getpwnam knows, with their pw_dir
passwd == [n \in {<<"u">>} |-> <<"/", "u">>]

\* posixpath.expanduser with HOME set to h
expanduser(path, h) ==
    IF ~startswith(path, "~") THEN path
    ELSE LET f == find(path, "/", 2)
             i == IF f = 0 THEN Len(path) + 1 ELSE f
             name == SubSeq(path, 2, i - 1)
             rest == SubSeq(path, i, Len(path))
         IN  IF i # 2 /\ name \notin DOMAIN passwd THEN path
             ELSE LET userhome == rstrip(IF i = 2 THEN h ELSE passwd[name], "/")
                      joined == userhome \o rest
                  IN  IF joined = <<>> THEN <<"/">> ELSE joined

(* --------------------------- SupportModel ----------------------------- *)
\* the class attribute  process: Optional[...] = None
ClassProcess == "None"

\* reading the attribute of an instance that holds proc: the instance
\* attribute, else the class one
Read(proc) == IF proc = "unset" THEN ClassProcess ELSE proc

\* self.process as the caller reads it
ReadProcess == Read(process)

\* the constructor without the expansion
SupportModelInitVerbatim(dir, dev, dt, h) == [model_dir |-> dir, device |-> dev, dtype |-> dt]

\* the fields SupportModel.__init__ stores
SupportModelInit(dir, dev, dt, h) ==
    [model_dir |-> IF startswith(dir, "~") THEN expanduser(dir, h) ELSE dir,
     device    |-> dev,
     dtype     |-> dt]

Call(op, args, ret, raised) == [op |-> op, args |-> args, ret |-> ret, raised |-> raised]

\* a new SupportModel replaces the modelled one
Fresh(obj, call) ==
    /\ model_dir' = obj.model_dir
    /\ device' = obj.device
    /\ dtype' = obj.dtype
    /\ loaded' = "unset"
    /\ process' = "unset"
    /\ active' = 0
    /\ trace' = <<>>
    /\ last' = call

Init ==
    /\ home \in Homes
    /\ kwargs = {}
    /\ entered = FALSE
    /\ \E dir \in ModelDirs, dev \in DeviceTypes, dt \in Dtypes :
        LET obj == SupportModelInit(dir, dev, dt, home)
        IN  /\ model_dir = obj.model_dir
            /\ device = obj.device
            /\ dtype = obj.dtype
            /\ last = Call("__init__", <<dir, dev, dt>>, "self", "none")
    /\ loaded = "unset"
    /\ process = "unset"
    /\ active = 0
    /\ trace = <<>>

\* SupportModel(dir, dev, dt)
Construct ==
    /\ \E dir \in ModelDirs, dev \in DeviceTypes, dt \in Dtypes :
        Fresh(SupportModelInit(dir, dev, dt, home),
              Call("__init__", <<dir, dev, dt>>, "self", "none"))
    /\ UNCHANGED <<home, kwargs, entered>>

\* the key and the default of configuration.get(...)
CacheKey == "enfugue.engine.cache"

DefaultCacheDir ==
    <<"~", "/", ".", "c", "a", "c", "h", "e", "/",
      "e", "n", "f", "u", "g", "u", "e", "/", "o", "t", "h", "e", "r">>

\* what get_local_configuration() may return: no cache key, or one of two paths
LocalConfigurations ==
    {[k \in {} |-> <<>>],
     [k \in {CacheKey} |-> <<"/", "c">>],
     [k \in {CacheKey} |-> <<"~", "/", "c">>]}

\* APIConfiguration(): a configuration with no values
APIConfiguration == [k \in {} |-> <<>>]

\* configuration.get(key, default)
ConfigurationGet(configuration, key, default) ==
    IF key \in DOMAIN configuration THEN configuration[key] ELSE default

\* without the try/except an error of get_local_configuration leaves the call
ResolveConfigurationUnguarded(raises, conf) ==
    [raised |-> IF raises THEN "ConfigurationError" ELSE "none", configuration |-> conf]

\* try: get_local_configuration()  except: APIConfiguration()
ResolveConfiguration(raises, conf) ==
    [raised |-> "none", configuration |-> IF raises THEN APIConfiguration ELSE conf]

\* reduced precision on every accelerator
DefaultDtypeAnyAccelerator(dev) == IF dev # "cpu" THEN "float16" ELSE "float32"

\* torch.float16 if device.type == "cuda" else torch.float32
DefaultDtype(dev) == IF dev = "cuda" THEN "float16" ELSE "float32"

\* SupportModel.get_default_instance(); dev is what get_optimal_device() gives,
\* raises and conf are what get_local_configuration() does
GetDefaultInstance ==
    /\ \E dev \in DeviceTypes, raises \in BOOLEAN, conf \in LocalConfigurations :
        LET r == ResolveConfiguration(raises, conf)
            dir == ConfigurationGet(r.configuration, CacheKey, DefaultCacheDir)
        IN  IF r.raised = "none"
            THEN Fresh(SupportModelInit(dir, dev, DefaultDtype(dev), home),
                       Call("get_default_instance", <<dev, raises, conf>>, "instance", "none"))
            ELSE /\ last' = Call("get_default_instance", <<dev, raises, conf>>, "no value", r.raised)
                 /\ trace' = <<>>
                 /\ UNCHANGED <<model_dir, device, dtype, loaded, process, active>>
    /\ UNCHANGED <<home, kwargs, entered>>

\* one effect of a call, with the instance as it is right after the effect
Ev(name, ld, proc) == [ev |-> name, loaded |-> ld, process |-> proc]

\* context(), the part before the yield
ContextEnter ==
    /\ active < MaxDepth
    /\ loaded' = "True"
    /\ active' = active + 1
    /\ trace' = <<Ev("loaded=True", "True", Read(process))>>
    /\ last' = Call("context.__enter__", <<>>, "self", "none")
    /\ UNCHANGED <<home, model_dir, device, dtype, process, kwargs, entered>>

\* the code inside or outside a context assigns self.process
AssignProcess ==
    /\ \E v \in Processors \cup {"None"} :
        /\ process' = v
        /\ last' = Call("process=", <<v>>, "None", "none")
    /\ trace' = <<>>
    /\ UNCHANGED <<home, model_dir, device, dtype, loaded, active, kwargs, entered>>

\* the cleanup with the flag left as the entry set it
CleanupKeepsLoaded(dev, proc) ==
    LET held == Read(proc) # "None"
        p1 == IF held THEN "unset" ELSE proc
        t1 == IF held THEN <<Ev("del process", "True", Read(p1))>> ELSE <<>>
        t3 == IF dev = "cuda" THEN Append(t1, Ev("torch.cuda.empty_cache", "True", Read(p1)))
              ELSE IF dev = "mps" THEN Append(t1, Ev("torch.mps.empty_cache", "True", Read(p1)))
              ELSE t1
    IN  [loaded |-> "True", process |-> p1,
         trace |-> Append(t3, Ev("gc.collect", "True", Read(p1)))]

\* the cleanup with the reference kept
CleanupKeepsProcess(dev, proc) ==
    LET t1 == <<Ev("loaded=False", "False", Read(proc))>>
        t3 == IF dev = "cuda" THEN Append(t1, Ev("torch.cuda.empty_cache", "False", Read(proc)))
              ELSE IF dev = "mps" THEN Append(t1, Ev("torch.mps.empty_cache", "False", Read(proc)))
              ELSE t1
    IN  [loaded |-> "False", process |-> proc,
         trace |-> Append(t3, Ev("gc.collect", "False", Read(proc)))]

\* the cleanup with the cache released before the reference is dropped
CleanupCacheFirst(dev, proc) ==
    LET held == Read(proc) # "None"
        p1 == IF held THEN "unset" ELSE proc
        t1 == <<Ev("loaded=False", "False", Read(proc))>>
        t2 == IF dev = "cuda" THEN Append(t1, Ev("torch.cuda.empty_cache", "False", Read(proc)))
              ELSE IF dev = "mps" THEN Append(t1, Ev("torch.mps.empty_cache", "False", Read(proc)))
              ELSE t1
        t3 == IF held THEN Append(t2, Ev("del process", "False", Read(p1))) ELSE t2
    IN  [loaded |-> "False", process |-> p1,
         trace |-> Append(t3, Ev("gc.collect", "False", Read(p1)))]

\* the cleanup with the cache released on every device but the cpu
CleanupAnyAccelerator(dev, proc) ==
    LET held == Read(proc) # "None"
        p1 == IF held THEN "unset" ELSE proc
        t1 == <<Ev("loaded=False", "False", Read(proc))>>
        t2 == IF held THEN Append(t1, Ev("del process", "False", Read(p1))) ELSE t1
        t3 == IF dev = "mps" THEN Append(t2, Ev("torch.mps.empty_cache", "False", Read(p1)))
              ELSE IF dev # "cpu" THEN Append(t2, Ev("torch.cuda.empty_cache", "False", Read(p1)))
              ELSE t2
    IN  [loaded |-> "False", process |-> p1,
         trace |-> Append(t3, Ev("gc.collect", "False", Read(p1)))]

\* context(), the part after the yield: what it leaves on the instance and
\* the effects in program order
Cleanup(dev, proc) ==
    LET held == Read(proc) # "None"
        p1 == IF held THEN "unset" ELSE proc
        t1 == <<Ev("loaded=False", "False", Read(proc))>>
        t2 == IF held THEN Append(t1, Ev("del process", "False", Read(p1))) ELSE t1
        t3 == IF dev = "cuda" THEN Append(t2, Ev("torch.cuda.empty_cache", "False", Read(p1)))
              ELSE IF dev = "mps" THEN Append(t2, Ev("torch.mps.empty_cache", "False", Read(p1)))
              ELSE t2
    IN  [loaded |-> "False", process |-> p1,
         trace |-> Append(t3, Ev("gc.collect", "False", Read(p1)))]

\* the body returns: the generator is resumed and runs to its end
ContextExit ==
    /\ active >= 1
    /\ LET c == Cleanup(device, process)
       IN  /\ loaded' = c.loaded
           /\ process' = c.process
           /\ trace' = c.trace
    /\ active' = active - 1
    /\ last' = Call("context.__exit__", <<"none">>, "None", "none")
    /\ UNCHANGED <<home, model_dir, device, dtype, kwargs, entered>>

\* a context that runs the cleanup in a finally block
ThrowWithFinally(dev, ld, proc) == Cleanup(dev, proc)

\* the body raises: the error is thrown into the generator at the yield, no
\* handler encloses the yield, the generator ends there
Throw(dev, ld, proc) == [loaded |-> ld, process |-> proc, trace |-> <<>>]

ContextRaise ==
    /\ active >= 1
    /\ LET c == Throw(device, loaded, process)
       IN  /\ loaded' = c.loaded
           /\ process' = c.process
           /\ trace' = c.trace
    /\ active' = active - 1
    /\ last' = Call("context.__exit__", <<"BodyError">>, "no value", "BodyError")
    /\ UNCHANGED <<home, model_dir, device, dtype, kwargs, entered>>

(* --------------------- SupportModelImageProcessor --------------------- *)
\* Python's truth value of what __exit__ returned
Truthy(v) == v \notin {"None", "False"}

\* SupportModelImageProcessor(**k)
ProcessorInit ==
    /\ ~entered
    /\ \E k \in KwargSets :
        /\ kwargs' = k
        /\ last' = Call("SupportModelImageProcessor", <<k>>, "self", "none")
    /\ trace' = <<>>
    /\ UNCHANGED <<home, model_dir, device, dtype, loaded, process, active, entered>>

ProcessorEnterReturn == "self"

\* with processor: ...
ProcessorEnter ==
    /\ ~entered
    /\ entered' = TRUE
    /\ last' = Call("__enter__", <<>>, ProcessorEnterReturn, "none")
    /\ trace' = <<>>
    /\ UNCHANGED <<home, model_dir, device, dtype, loaded, process, active, kwargs>>

\* __exit__ returns None
ProcessorExitReturn == "None"

\* the with block is left, with or without an error of its body
ProcessorExit ==
    /\ entered
    /\ entered' = FALSE
    /\ \E exc \in BodyErrors :
        last' = Call("__exit__", <<exc>>, ProcessorExitReturn,
                     IF Truthy(ProcessorExitReturn) THEN "none" ELSE exc)
    /\ trace' = <<>>
    /\ UNCHANGED <<home, model_dir, device, dtype, loaded, process, active, kwargs>>

ProcessorCallIdentity(image) == [ret |-> image, raised |-> "none"]

\* __call__(image)
ProcessorCallResult(image) == [ret |-> "no value", raised |-> "NotImplementedError"]

ProcessorCall ==
    /\ \E image \in Images :
        LET r == ProcessorCallResult(image)
        IN  last' = Call("__call__", <<image>>, r.ret, r.raised)
    /\ trace' = <<>>
    /\ UNCHANGED <<home, model_dir, device, dtype, loaded, process, active, kwargs, entered>>

\* the use of one instance, constructed by Init with any arguments, and of
\* one processor
Next ==
    \/ ContextEnter
    \/ AssignProcess
    \/ ContextExit
    \/ ContextRaise
    \/ ProcessorInit
    \/ ProcessorEnter
    \/ ProcessorExit
    \/ ProcessorCall

Spec == Init /\ [][Next]_vars

\* the two ways to make an instance, one instance after the other
NextNew ==
    \/ Construct
    \/ GetDefaultInstance

SpecNew == Init /\ [][NextNew]_vars

(* ------------------------------ claims -------------------------------- *)
NormalExit == last.op = "context.__exit__" /\ last.raised = "none"

Events == {trace[i].ev : i \in 1..Len(trace)}

Count(name) == Cardinality({i \in 1..Len(trace) : trace[i].ev = name})

\* C1: after a context is left normally the loaded flag is false and reading
\* the processor off the instance gives None, whatever the body assigned.
C1_AfterNormalExit ==
    NormalExit => (loaded = "False" /\ ReadProcess = "None")

C1_Witness ==
    /\ NormalExit
    /\ "del process" \in Events
    /\ loaded = "False"
    /\ process = "unset"

\* C2: the loaded flag is true only while a context of the instance is entered
\* and not yet left.
C2_LoadedOnlyInsideContext ==
    loaded = "True" => active >= 1

\* C3: when the body raises, the error leaves the context and no cleanup step
\* runs: the flag and the held processor stay as they were (a true flag stays
\* true), and neither a cache release nor gc.collect is called.
C3_RaiseSkipsCleanup ==
    [][(/\ last'.op = "context.__exit__"
        /\ last'.args = <<"BodyError">>
        /\ active' = active - 1)
       => (/\ last'.raised = "BodyError"
           /\ loaded' = loaded
           /\ (loaded = "True" => loaded' = "True")
           /\ process' = process
           /\ trace' = <<>>)]_vars

C3_Witness ==
    /\ last.op = "context.__exit__"
    /\ last.raised = "BodyError"
    /\ active = 0
    /\ loaded = "True"
    /\ process \in Processors
    /\ trace = <<>>

\* C4: a normal exit calls gc.collect exactly once, the cuda cache release
\* exactly once on a cuda device and never otherwise, the mps cache release
\* exactly once on an mps device and never otherwise.
C4_ReleaseByDeviceClass ==
    NormalExit =>
        /\ Count("gc.collect") = 1
        /\ Count("torch.cuda.empty_cache") = (IF device = "cuda" THEN 1 ELSE 0)
        /\ Count("torch.mps.empty_cache") = (IF device = "mps" THEN 1 ELSE 0)

C4_Witness ==
    /\ NormalExit
    /\ device = "mps"
    /\ Count("torch.mps.empty_cache") = 1
    /\ Count("torch.cuda.empty_cache") = 0
    /\ Count("gc.collect") = 1

\* the place of an effect in the order the claim states
Rank(name) ==
    CASE name = "loaded=False" -> 1
      [] name = "del process" -> 2
      [] name \in {"torch.cuda.empty_cache", "torch.mps.empty_cache"} -> 3
      [] name = "gc.collect" -> 4
      [] OTHER -> 0

\* C5: the effects of a normal exit come in the order flag, reference drop,
\* cache release, gc.collect; the flag is first, gc.collect is last, and at a
\* cache release the instance holds no processor.
C5_CleanupOrder ==
    NormalExit =>
        /\ Len(trace) >= 2
        /\ trace[1].ev = "loaded=False"
        /\ trace[Len(trace)].ev = "gc.collect"
        /\ \A i, j \in 1..Len(trace) :
            i < j => (Rank(trace[i].ev) >= 1 /\ Rank(trace[i].ev) < Rank(trace[j].ev))
        /\ \A i \in 1..Len(trace) :
            Rank(trace[i].ev) = 3 => (trace[i].process = "None" /\ trace[i].loaded = "False")

C5_Witness ==
    /\ NormalExit
    /\ device = "cuda"
    /\ Len(trace) = 4
    /\ trace[2].ev = "del process"
    /\ trace[3].ev = "torch.cuda.empty_cache"

\* the default cache path with the leading "~" replaced by the home directory
ExpandedDefault ==
    rstrip(home, "/") \o SubSeq(DefaultCacheDir, 2, Len(DefaultCacheDir))

\* C6: when get_local_configuration raises, get_default_instance still returns
\* an instance, and its model_dir is the home-expanded default cache path.
C6_ConfigurationFallback ==
    (last.op = "get_default_instance" /\ last.args[2] = TRUE) =>
        /\ last.raised = "none"
        /\ last.ret = "instance"
        /\ model_dir = ExpandedDefault

C6_Witness ==
    /\ last.op = "get_default_instance"
    /\ last.args[2] = TRUE
    /\ last.raised = "none"
    /\ home = <<"/", "h">>
    /\ Len(model_dir) = 23
    /\ SubSeq(model_dir, 1, 10) = <<"/", "h", "/", ".", "c", "a", "c", "h", "e", "/">>

\* C7: get_default_instance gives float16 on a cuda device and float32 on
\* every other device, with either configuration, and stores the resolved
\* device.
C7_DefaultDtype ==
    (last.op = "get_default_instance" /\ last.raised = "none") =>
        /\ device = last.args[1]
        /\ dtype = (IF last.args[1] = "cuda" THEN "float16" ELSE "float32")

C7_Witness ==
    /\ last.op = "get_default_instance"
    /\ last.args[1] = "mps"
    /\ last.args[2] = FALSE
    /\ device = "mps"
    /\ dtype = "float32"

\* the model_dir the last constructor call was given
GivenDir == last.args[1]

NameOf(dir) ==
    LET f == find(dir, "/", 2)
    IN  SubSeq(dir, 2, IF f = 0 THEN Len(dir) ELSE f - 1)

\* "~" alone or "~/..."
OwnHome(dir) == dir = <<"~">> \/ (Len(dir) >= 2 /\ dir[1] = "~" /\ dir[2] = "/")

Untouched == <<home, model_dir, device, dtype, loaded, process, active, kwargs>>

\* C9: calling the base processor raises NotImplementedError and returns no
\* value, with any options and inside or outside its scope; entering it
\* returns the processor itself; leaving it does nothing and passes on an
\* error of its body.
C9_BaseProcessor ==
    [][/\ last'.op = "__call__" =>
            (last'.raised = "NotImplementedError" /\ last'.ret = "no value"
             /\ UNCHANGED Untouched /\ UNCHANGED entered)
       /\ last'.op = "__enter__" =>
            (last'.ret = "self" /\ last'.raised = "none" /\ UNCHANGED Untouched)
       /\ last'.op = "__exit__" =>
            (last'.raised = last'.args[1] /\ UNCHANGED Untouched)]_vars

C9_Witness ==
    /\ last.op = "__call__"
    /\ last.raised = "NotImplementedError"
    /\ kwargs # {}
    /\ entered

\* C10: a second context can be entered while the first is open, and the
\* normal exit of one of two open contexts sets the flag false and drops the
\* processor while the other is still open.
C10_OverlapCorrupts ==
    [][(/\ active >= 2
        /\ last'.op = "context.__exit__"
        /\ last'.raised = "none"
        /\ active' = active - 1)
       => (/\ active' >= 1
           /\ loaded' = "False"
           /\ Read(process') = "None")]_vars

C10_Witness ==
    /\ active >= 1
    /\ NormalExit
    /\ "del process" \in Events
    /\ loaded = "False"
    /\ ReadProcess = "None"

====
